---- MODULE Spec2Model ----
(***************************************************************************)
(* Off-chain provenance service (offchain/src): the seven stage handlers   *)
(* of handlers.rs, the hash and merkle utilities of models.rs and the      *)
(* error mapping of error.rs.                                              *)
(*                                                                         *)
(* A handler runs in three steps, cut at its two await points: the part up *)
(* to the upload call, the part between the upload's answer and the pin    *)
(* call, and the part after the pin's answer.  The storage service is the  *)
(* environment: it answers every call with success or with an error.       *)
(*                                                                         *)
(* Digests are symbolic and collision-free: compute_keccak256(s) and       *)
(* compute_sha256(s) are strings that embed s, tagged by the algorithm.    *)
(* f64 values are the integral ones, written as integers (5 stands for     *)
(* 5.0); each formatter renders them the way the Rust formatter does.      *)
(***************************************************************************)
EXTENDS Integers, Sequences, FiniteSets, TLC

VARIABLES inv, store, pinned, usedUuids, m_hashes, m_level, m_pc, m_root, m_iters

vars == <<inv, store, pinned, usedUuids, m_hashes, m_level, m_pc, m_root, m_iters>>
pipeVars == <<inv, store, pinned, usedUuids>>
merkleVars == <<m_hashes, m_level, m_pc, m_root, m_iters>>

(* ------------------------------ bounds -------------------------------- *)
MaxTime == 2
MaxUuid == 2
MaxLeaves == 4

\* the invocation slots: two handlers may be in flight at once (every property
\* below speaks of one invocation or of a pair of them)
Invs == {"i1", "i2"}
Times == 1..MaxTime
Uuids == 1..MaxUuid
\* content addresses the storage service may answer an upload with
Cids == {"QmA", "QmB"}
\* request.send().await failed: the request never reached the node
SendFailure == "Failed to send request to IPFS API"
\* the node answered with the status 500 and the body "down"
ApiFailure == "IPFS API error (500 Internal Server Error): down"
\* the node answered with a success status, but its body could not be parsed: the
\* node has accepted the content by then
ParseFailure == "Failed to parse IPFS API response"
\* texts of the errors upload_bytes may fail with
ErrDetails == {SendFailure, ApiFailure, ParseFailure}
\* what request.send().await hands back: the status of the node's answer; with a
\* success status the node holds the content under the address its body will name
HttpResponses == {[status |-> 200, hash |-> c] : c \in Cids} \cup {[status |-> 500]}
\* status.is_success()
is_success(status) == status \in 200..299
\* the error text of a failed pin request: the transport failure
PinErrDetails == {"Failed to send request to IPFS API"}
\* leaves of the merkle inputs: caller-supplied strings
Leaves == {"a", "aa", "b"}

(* --------------------------- Option<T> -------------------------------- *)
None == [tag |-> "None"]
Some(v) == [tag |-> "Some", val |-> v]

(* --------------------------- formatting ------------------------------- *)
\* format!("{}", f64) of an integral value: 5.0 prints as "5"
FmtF64(x) == ToString(x)
\* format!("{:?}", f64) of an integral value: 5.0 prints as "5.0"
DbgF64(x) == ToString(x) \o ".0"
\* format!("{:?}", Option<f64>)
DbgOptF64(o) == IF o.tag = "None" THEN "None" ELSE "Some(" \o DbgF64(o.val) \o ")"
\* format!("{}", DateTime<Utc>): the timestamp t is second t of one fixed day
FmtDateTime(t) == "2025-01-01 00:00:0" \o ToString(t) \o " UTC"
\* Uuid::new_v4().to_string(): the hyphenated form; u numbers the random draw
UuidStr(u) == "0000000" \o ToString(u) \o "-0000-4000-8000-000000000000"
\* serde_json text of a String, of an f64, of an Option<String>
JsonStr(s) == "\"" \o s \o "\""
JsonF64(x) == ToString(x) \o ".0"
JsonOptStr(o) == IF o.tag = "None" THEN "null" ELSE JsonStr(o.val)

(* ----------------------------- hashes --------------------------------- *)
compute_keccak256(data) == "0xK(" \o data \o ")"

compute_sha256(data) == "0xS(" \o data \o ")"

\* variant: the identifier is derived from the prefix alone
generate_did_fixed(prefix, u) == "did:" \o prefix \o ":" \o UuidStr(1)

generate_did(prefix, u) == "did:" \o prefix \o ":" \o UuidStr(u)

(* ------------------------- request payloads --------------------------- *)
\* FarmerRegistrationRequest (the descriptive optional fields are left out)
FarmerPayloads ==
  { [farmer_name |-> "A", crop_type |-> "rice",  land_area_hectares |-> 2, location |-> "X"],
    [farmer_name |-> "A", crop_type |-> "",      land_area_hectares |-> 2, location |-> "X"] }

\* FpoPurchaseRequest
FpoPayloads ==
  { [farmer_did |-> "a-b", fpo_name |-> "F", batch_id |-> "c",   quantity_kg |-> 5,
     price_per_kg |-> 3, quality_grade |-> "A"],
    [farmer_did |-> "a",   fpo_name |-> "F", batch_id |-> "b-c", quantity_kg |-> 5,
     price_per_kg |-> 3, quality_grade |-> "A"],
    [farmer_did |-> "a-b", fpo_name |-> "F", batch_id |-> "c",   quantity_kg |-> 5,
     price_per_kg |-> 3, quality_grade |-> "B"],
    [farmer_did |-> "",    fpo_name |-> "F", batch_id |-> "c",   quantity_kg |-> 5,
     price_per_kg |-> 3, quality_grade |-> "A"] }

\* WarehouseUpdateRequest
WarehousePayloads ==
  { [warehouse_id |-> "W", batch_id |-> "B", storage_location |-> "S",
     temperature_celsius |-> Some(20), humidity_percentage |-> None],
    [warehouse_id |-> "W", batch_id |-> "",  storage_location |-> "S",
     temperature_celsius |-> None, humidity_percentage |-> None] }

\* LogisticsMilestoneRequest
LogisticsPayloads ==
  { [shipment_id |-> "S", current_location |-> "L",
     gps_coordinates |-> [latitude |-> 1, longitude |-> 2, altitude |-> None],
     carrier_name |-> "C1", is_delivered |-> FALSE],
    [shipment_id |-> "S", current_location |-> "L",
     gps_coordinates |-> [latitude |-> 1, longitude |-> 2, altitude |-> None],
     carrier_name |-> "C2", is_delivered |-> TRUE],
    [shipment_id |-> "",  current_location |-> "L",
     gps_coordinates |-> [latitude |-> 1, longitude |-> 2, altitude |-> None],
     carrier_name |-> "C1", is_delivered |-> FALSE] }

\* ProcessBatchRequest
ProcessPayloads ==
  { [input_batch_id |-> "I", processor_name |-> "P", processing_type |-> "Cleaning",
     input_quantity_kg |-> 10, output_quantity_kg |-> 8, yield_percentage |-> 80,
     waste_percentage |-> 20, certifications |-> <<>>, output_batch_ids |-> <<"O1", "O2">>],
    [input_batch_id |-> "I", processor_name |-> "P", processing_type |-> "Cleaning",
     input_quantity_kg |-> 10, output_quantity_kg |-> 8, yield_percentage |-> 80,
     waste_percentage |-> 20, certifications |-> <<"organic">>,
     output_batch_ids |-> <<"O1", "O2">>],
    [input_batch_id |-> "I", processor_name |-> "",  processing_type |-> "Cleaning",
     input_quantity_kg |-> 10, output_quantity_kg |-> 8, yield_percentage |-> 80,
     waste_percentage |-> 20, certifications |-> <<>>, output_batch_ids |-> <<"O1">>] }

\* CreateSkuRequest
SkuPayloads ==
  { [sku_id |-> "SKU1", parent_batch_id |-> "PB", product_name |-> "N", brand |-> "X",
     merkle_proof |-> None],
    [sku_id |-> "SKU1", parent_batch_id |-> "PB", product_name |-> "N", brand |-> "X",
     merkle_proof |-> Some(<<"leaf1", "leaf2", "leaf3">>)],
    [sku_id |-> "SKU1", parent_batch_id |-> "PB", product_name |-> "N", brand |-> "Y",
     merkle_proof |-> Some(<<"leaf1", "leaf2", "leaf3">>)],
    [sku_id |-> "",     parent_batch_id |-> "PB", product_name |-> "N", brand |-> "X",
     merkle_proof |-> None] }

\* AiScoreRequest: all eleven fields, features and predictions as their JSON text
AiBase ==
  [batch_id |-> "B", quality_score |-> 90, sustainability_score |-> 70,
   traceability_score |-> 80, model_name |-> "M", model_version |-> "v1",
   features |-> "{}", predictions |-> "[]", confidence |-> 1,
   model_artifacts_url |-> None, training_data_hash |-> None]

AiPayloads ==
  { AiBase,
    [AiBase EXCEPT !.batch_id = ""] }

(* ---------------------------- validation ------------------------------ *)
\* #[validate(length(min = 1))] on one field: the field's name when it fails
CheckLen(name, value) == IF Len(value) >= 1 THEN <<>> ELSE <<name>>

\* the failing fields of each request type, in declaration order
validate_FarmerRegistrationRequest(p) ==
  CheckLen("farmer_name", p.farmer_name) \o CheckLen("crop_type", p.crop_type)
    \o CheckLen("location", p.location)

\* variant: farmer_did loses its length rule
validate_FpoPurchaseRequest_lax(p) == CheckLen("fpo_name", p.fpo_name)

validate_FpoPurchaseRequest(p) ==
  CheckLen("farmer_did", p.farmer_did) \o CheckLen("fpo_name", p.fpo_name)

validate_WarehouseUpdateRequest(p) ==
  CheckLen("warehouse_id", p.warehouse_id) \o CheckLen("batch_id", p.batch_id)

validate_LogisticsMilestoneRequest(p) == CheckLen("shipment_id", p.shipment_id)

validate_ProcessBatchRequest(p) ==
  CheckLen("input_batch_id", p.input_batch_id) \o CheckLen("processor_name", p.processor_name)

validate_CreateSkuRequest(p) ==
  CheckLen("sku_id", p.sku_id) \o CheckLen("parent_batch_id", p.parent_batch_id)
    \o CheckLen("product_name", p.product_name)

validate_AiScoreRequest(p) == CheckLen("batch_id", p.batch_id)

\* ValidationErrors::to_string(): one line per failing field
RECURSIVE ValidationText(_)
ValidationText(fields) ==
  IF fields = <<>> THEN ""
  ELSE Head(fields) \o ": Validation error: length\n" \o ValidationText(Tail(fields))

(* ------------------------------ errors -------------------------------- *)
\* AppError::ValidationError(e.to_string())
ValidationError(fields) == [kind |-> "ValidationError", msg |-> ValidationText(fields)]

\* impl From<anyhow::Error> for AppError
FromAnyhow(detail) == [kind |-> "InternalError", msg |-> detail]

STATUS_OK == 200
STATUS_CREATED == 201
STATUS_BAD_REQUEST == 400
STATUS_NOT_FOUND == 404
STATUS_UNAUTHORIZED == 401
STATUS_INTERNAL_SERVER_ERROR == 500
STATUS_BAD_GATEWAY == 502

\* AppError::into_response: the status and the message of each variant
StatusOf(e) ==
  CASE e.kind = "IpfsError"          -> STATUS_BAD_GATEWAY
    [] e.kind = "SerializationError" -> STATUS_BAD_REQUEST
    [] e.kind = "ValidationError"    -> STATUS_BAD_REQUEST
    [] e.kind = "NotFound"           -> STATUS_NOT_FOUND
    [] e.kind = "InternalError"      -> STATUS_INTERNAL_SERVER_ERROR
    [] e.kind = "HashError"          -> STATUS_INTERNAL_SERVER_ERROR
    [] e.kind = "IoError"            -> STATUS_INTERNAL_SERVER_ERROR
    [] e.kind = "HttpError"          -> STATUS_BAD_GATEWAY
    [] e.kind = "InvalidCid"         -> STATUS_BAD_REQUEST
    [] e.kind = "Unauthorized"       -> STATUS_UNAUTHORIZED
    [] e.kind = "BadRequest"         -> STATUS_BAD_REQUEST

MessageOf(e) ==
  CASE e.kind = "SerializationError" -> "Serialization error: " \o e.msg
    [] e.kind = "IoError"            -> "IO error: " \o e.msg
    [] e.kind = "HttpError"          -> "HTTP error: " \o e.msg
    [] OTHER                         -> e.msg

into_response(e) ==
  [status |-> StatusOf(e), body |-> [error |-> MessageOf(e), status |-> StatusOf(e)]]

\* what a handler returns: Ok((StatusCode::CREATED, Json(response))) or Err(e)
NoResult == [tag |-> "None"]
Ok(response) == [tag |-> "Ok", status |-> STATUS_CREATED, body |-> response]
Err(e) == [tag |-> "Err", err |-> e, status |-> into_response(e).status,
           body |-> into_response(e).body]

(* ------------------------------ traces -------------------------------- *)
\* one entry per step a handler has taken, in the order of the code
Ev(op, arg) == [op |-> op, arg |-> arg]
\* the positions of the entries of trace tr whose op is in ops
Positions(tr, ops) == {k \in 1..Len(tr) : tr[k].op \in ops}
Count(tr, ops) == Cardinality(Positions(tr, ops))

(* --------------------------- merkle root ------------------------------ *)
\* current_level.chunks(2): consecutive slices of two, the last of one when odd
RECURSIVE chunks2(_)
chunks2(level) ==
  IF Len(level) = 0 THEN <<>>
  ELSE IF Len(level) = 1 THEN <<level>>
  ELSE <<SubSeq(level, 1, 2)>> \o chunks2(SubSeq(level, 3, Len(level)))

\* variant: an odd trailing element is promoted, hashed alone
combined_promote(chunk) ==
  IF Len(chunk) = 2 THEN chunk[1] \o chunk[2] ELSE chunk[1]

\* variant: only the left element of a pair is hashed
combined_left(chunk) == chunk[1] \o chunk[1]

\* the text hashed for one chunk
combined(chunk) ==
  IF Len(chunk) = 2 THEN chunk[1] \o chunk[2] ELSE chunk[1] \o chunk[1]

\* one pass of the while loop: next_level built from current_level
next_level(current_level) ==
  LET cs == chunks2(current_level)
  IN [k \in 1..Len(cs) |-> compute_sha256(combined(cs[k]))]

RECURSIVE merkle_loop(_)
merkle_loop(current_level) ==
  IF Len(current_level) > 1 THEN merkle_loop(next_level(current_level))
  ELSE current_level[1]

compute_merkle_root(hashes) ==
  IF Len(hashes) = 0 THEN compute_sha256("empty")
  ELSE IF Len(hashes) = 1 THEN hashes[1]
  ELSE merkle_loop(hashes)

(* ----------------------- state of an invocation ----------------------- *)
\* pc: "idle" before the call, "upload" while the upload's request.send() is awaited,
\* "body" while the body of the node's answer is awaited, "pin" while pin is awaited,
\* "done" once the handler has returned.  locals holds the handler's local variables
\* bound so far, metadata the envelope built for the upload, http_response the answer
\* request.send() handed back for the upload, once it has arrived.
NoLocals == [tag |-> "None"]

Idle ==
  [pc |-> "idle", stage |-> "", payload |-> None, locals |-> NoLocals, metadata |-> None,
   cid |-> None, http_response |-> None, trace |-> <<>>, result |-> NoResult]

\* payload.validate().map_err(|e| AppError::ValidationError(e.to_string()))?
Rejected(stage, payload, fields) ==
  [pc |-> "done", stage |-> stage, payload |-> payload, locals |-> NoLocals,
   metadata |-> None, cid |-> None, http_response |-> None,
   trace |-> <<Ev("validate", "err"), Ev("error", "ValidationError")>>,
   result |-> Err(ValidationError(fields))]

\* the handler suspended in state.ipfs_client.upload_json(&metadata).await
AwaitUpload(stage, payload, locals, metadata, steps) ==
  [pc |-> "upload", stage |-> stage, payload |-> payload, locals |-> locals,
   metadata |-> metadata, cid |-> None, http_response |-> None,
   trace |-> <<Ev("validate", "ok")>> \o steps \o <<Ev("upload", "")>>,
   result |-> NoResult]

(* ---------------- stage handlers: up to the upload call --------------- *)
register_farmer(i) ==
  /\ inv[i].pc = "idle"
  /\ \E payload \in FarmerPayloads :
       LET bad == validate_FarmerRegistrationRequest(payload) IN
       IF bad # <<>>
       THEN /\ inv' = [inv EXCEPT ![i] = Rejected("register_farmer", payload, bad)]
            /\ UNCHANGED usedUuids
       ELSE \E u \in Uuids \ usedUuids, now \in Times :
              LET farmer_did == generate_did("farmer", u)
                  metadata == [farmer_did |-> farmer_did, registration_data |-> payload,
                               registered_at |-> now, ipfs_cid |-> "", crop_id_hash |-> ""]
              IN /\ inv' = [inv EXCEPT ![i] =
                      AwaitUpload("register_farmer", payload, [farmer_did |-> farmer_did],
                        metadata, <<Ev("generate_did", farmer_did), Ev("now", "registered_at")>>)]
                 /\ usedUuids' = usedUuids \cup {u}
  /\ UNCHANGED <<store, pinned, merkleVars>>

\* variant: the fields are length-prefixed, so no field can run into the next
fpo_batch_data_prefixed(payload) ==
  ToString(Len(payload.farmer_did)) \o ":" \o payload.farmer_did \o "-"
    \o ToString(Len(payload.batch_id)) \o ":" \o payload.batch_id \o "-"
    \o FmtF64(payload.quantity_kg) \o "-" \o payload.fpo_name

\* variant: the handler reads state every invocation shares: the number of records
\* the store holds is hashed as well
fpo_batch_data_counted(payload) ==
  payload.farmer_did \o "-" \o payload.batch_id \o "-"
    \o FmtF64(payload.quantity_kg) \o "-" \o payload.fpo_name \o "-"
    \o ToString(Cardinality(store))

\* variant: the quality grade is hashed as well
fpo_batch_data_graded(payload) ==
  payload.farmer_did \o "-" \o payload.batch_id \o "-"
    \o FmtF64(payload.quantity_kg) \o "-" \o payload.fpo_name \o "-" \o payload.quality_grade

\* format!("{}-{}-{}-{}", farmer_did, batch_id, quantity_kg, fpo_name)
fpo_batch_data(payload) ==
  payload.farmer_did \o "-" \o payload.batch_id \o "-"
    \o FmtF64(payload.quantity_kg) \o "-" \o payload.fpo_name

fpo_purchase(i) ==
  /\ inv[i].pc = "idle"
  /\ \E payload \in FpoPayloads :
       LET bad == validate_FpoPurchaseRequest(payload) IN
       IF bad # <<>>
       THEN inv' = [inv EXCEPT ![i] = Rejected("fpo_purchase", payload, bad)]
       ELSE \E now \in Times :
              LET batch_data == fpo_batch_data(payload)
                  batch_hash == compute_keccak256(batch_data)
                  metadata == [batch_hash |-> batch_hash, purchase_data |-> payload,
                               purchased_at |-> now, ipfs_cid |-> ""]
              IN inv' = [inv EXCEPT ![i] =
                   AwaitUpload("fpo_purchase", payload, [batch_hash |-> batch_hash],
                     metadata, <<Ev("hash", "batch_hash"), Ev("now", "purchased_at")>>)]
  /\ UNCHANGED <<store, pinned, usedUuids, merkleVars>>

warehouse_update(i) ==
  /\ inv[i].pc = "idle"
  /\ \E payload \in WarehousePayloads :
       LET bad == validate_WarehouseUpdateRequest(payload) IN
       IF bad # <<>>
       THEN inv' = [inv EXCEPT ![i] = Rejected("warehouse_update", payload, bad)]
       ELSE \E now \in Times :
              LET metadata == [warehouse_id |-> payload.warehouse_id, state_hash |-> "",
                               warehouse_data |-> payload, updated_at |-> now,
                               ipfs_cid |-> ""]
              IN inv' = [inv EXCEPT ![i] =
                   AwaitUpload("warehouse_update", payload, NoLocals, metadata,
                     <<Ev("now", "updated_at")>>)]
  /\ UNCHANGED <<store, pinned, usedUuids, merkleVars>>

logistics_milestone(i) ==
  /\ inv[i].pc = "idle"
  /\ \E payload \in LogisticsPayloads :
       LET bad == validate_LogisticsMilestoneRequest(payload) IN
       IF bad # <<>>
       THEN inv' = [inv EXCEPT ![i] = Rejected("logistics_milestone", payload, bad)]
       ELSE \E now \in Times :
              LET location_data == payload.shipment_id \o "-" \o payload.current_location
                                     \o "-" \o FmtF64(payload.gps_coordinates.latitude)
                                     \o "-" \o FmtF64(payload.gps_coordinates.longitude)
                  location_hash == compute_keccak256(location_data)
                  metadata == [shipment_id |-> payload.shipment_id,
                               location_hash |-> location_hash, milestone_data |-> payload,
                               recorded_at |-> now, ipfs_cid |-> ""]
              IN inv' = [inv EXCEPT ![i] =
                   AwaitUpload("logistics_milestone", payload,
                     [location_hash |-> location_hash], metadata,
                     <<Ev("hash", "location_hash"), Ev("now", "recorded_at")>>)]
  /\ UNCHANGED <<store, pinned, usedUuids, merkleVars>>

process_batch(i) ==
  /\ inv[i].pc = "idle"
  /\ \E payload \in ProcessPayloads :
       LET bad == validate_ProcessBatchRequest(payload) IN
       IF bad # <<>>
       THEN inv' = [inv EXCEPT ![i] = Rejected("process_batch", payload, bad)]
       ELSE \E now \in Times :
              LET input_data == payload.input_batch_id \o "-" \o payload.processor_name
                                  \o "-" \o FmtF64(payload.input_quantity_kg)
                  input_batch_hash == compute_keccak256(input_data)
                  output_batch_hashes ==
                    [k \in 1..Len(payload.output_batch_ids) |->
                       compute_keccak256(payload.output_batch_ids[k] \o "-"
                                           \o FmtF64(payload.output_quantity_kg))]
                  transform_data == payload.processing_type \o "-"
                                      \o FmtF64(payload.yield_percentage) \o "-"
                                      \o FmtF64(payload.waste_percentage)
                  transform_hash == compute_keccak256(transform_data)
                  metadata == [input_batch_hash |-> input_batch_hash,
                               transform_hash |-> transform_hash,
                               output_batch_hashes |-> output_batch_hashes,
                               process_data |-> payload, processed_at |-> now,
                               ipfs_cid |-> ""]
              IN inv' = [inv EXCEPT ![i] =
                   AwaitUpload("process_batch", payload,
                     [input_batch_hash |-> input_batch_hash,
                      output_batch_hashes |-> output_batch_hashes,
                      transform_hash |-> transform_hash], metadata,
                     <<Ev("hash", "input_batch_hash"), Ev("hash", "output_batch_hashes"),
                       Ev("hash", "transform_hash"), Ev("now", "processed_at")>>)]
  /\ UNCHANGED <<store, pinned, usedUuids, merkleVars>>

\* variant: the supplied proof is ignored
merkle_leaves_sku_only(payload) == <<payload.sku_id>>

\* the supplied proof list, or the SKU id alone
merkle_leaves_of(payload) ==
  IF payload.merkle_proof.tag = "Some" THEN payload.merkle_proof.val
  ELSE <<payload.sku_id>>

create_sku(i) ==
  /\ inv[i].pc = "idle"
  /\ \E payload \in SkuPayloads :
       LET bad == validate_CreateSkuRequest(payload) IN
       IF bad # <<>>
       THEN inv' = [inv EXCEPT ![i] = Rejected("create_sku", payload, bad)]
       ELSE \E now \in Times :
              LET batch_data == payload.parent_batch_id \o "-" \o payload.product_name
                  parent_batch_hash == compute_keccak256(batch_data)
                  merkle_leaves == merkle_leaves_of(payload)
                  merkle_root == compute_merkle_root(merkle_leaves)
                  metadata == [sku_id |-> payload.sku_id,
                               parent_batch_hash |-> parent_batch_hash,
                               merkle_root |-> merkle_root, sku_data |-> payload,
                               packaged_at |-> now, ipfs_cid |-> ""]
              IN inv' = [inv EXCEPT ![i] =
                   AwaitUpload("create_sku", payload,
                     [parent_batch_hash |-> parent_batch_hash, merkle_root |-> merkle_root],
                     metadata,
                     <<Ev("hash", "parent_batch_hash"), Ev("hash", "merkle_root"),
                       Ev("now", "packaged_at")>>)]
  /\ UNCHANGED <<store, pinned, usedUuids, merkleVars>>

\* variant: model_version is skipped by the serializer
AiScoreJson_skip_version(p) ==
  "{\"batch_id\":" \o JsonStr(p.batch_id)
    \o ",\"quality_score\":" \o JsonF64(p.quality_score)
    \o ",\"sustainability_score\":" \o JsonF64(p.sustainability_score)
    \o ",\"traceability_score\":" \o JsonF64(p.traceability_score)
    \o ",\"model_name\":" \o JsonStr(p.model_name)
    \o ",\"features\":" \o p.features
    \o ",\"predictions\":" \o p.predictions
    \o ",\"confidence\":" \o JsonF64(p.confidence)
    \o ",\"model_artifacts_url\":" \o JsonOptStr(p.model_artifacts_url)
    \o ",\"training_data_hash\":" \o JsonOptStr(p.training_data_hash) \o "}"

\* serde_json::to_string(&payload): the fields of AiScoreRequest in declaration order
AiScoreJson(p) ==
  "{\"batch_id\":" \o JsonStr(p.batch_id)
    \o ",\"quality_score\":" \o JsonF64(p.quality_score)
    \o ",\"sustainability_score\":" \o JsonF64(p.sustainability_score)
    \o ",\"traceability_score\":" \o JsonF64(p.traceability_score)
    \o ",\"model_name\":" \o JsonStr(p.model_name)
    \o ",\"model_version\":" \o JsonStr(p.model_version)
    \o ",\"features\":" \o p.features
    \o ",\"predictions\":" \o p.predictions
    \o ",\"confidence\":" \o JsonF64(p.confidence)
    \o ",\"model_artifacts_url\":" \o JsonOptStr(p.model_artifacts_url)
    \o ",\"training_data_hash\":" \o JsonOptStr(p.training_data_hash) \o "}"

\* variant: the nonce is left out of the commit
commit_reveal_unsalted(payload, nonce) ==
  LET reveal_data == AiScoreJson(payload)
      reveal_hash == compute_keccak256(reveal_data)
      commit_data == reveal_hash
  IN [reveal_hash |-> reveal_hash, commit_hash |-> compute_keccak256(commit_data)]

\* the reveal hash of the serialized payload and the commit hash of reveal hash + nonce
\* (serde_json::to_string cannot fail on an AiScoreRequest, so the
\* SerializationError branch is never taken)
commit_reveal(payload, nonce) ==
  LET reveal_data == AiScoreJson(payload)
      reveal_hash == compute_keccak256(reveal_data)
      commit_data == reveal_hash \o nonce
  IN [reveal_hash |-> reveal_hash, commit_hash |-> compute_keccak256(commit_data)]

ai_score(i) ==
  /\ inv[i].pc = "idle"
  /\ \E payload \in AiPayloads :
       LET bad == validate_AiScoreRequest(payload) IN
       IF bad # <<>>
       THEN /\ inv' = [inv EXCEPT ![i] = Rejected("ai_score", payload, bad)]
            /\ UNCHANGED usedUuids
       ELSE \E u \in Uuids \ usedUuids, now \in Times :
              LET batch_data == payload.batch_id \o "-" \o payload.model_name
                  batch_hash == compute_keccak256(batch_data)
                  nonce == UuidStr(u)
                  reveal_hash == commit_reveal(payload, nonce).reveal_hash
                  commit_hash == commit_reveal(payload, nonce).commit_hash
                  metadata == [batch_hash |-> batch_hash, commit_hash |-> commit_hash,
                               reveal_hash |-> reveal_hash, nonce |-> nonce,
                               score_data |-> payload, scored_at |-> now, ipfs_cid |-> ""]
              IN /\ inv' = [inv EXCEPT ![i] =
                      AwaitUpload("ai_score", payload,
                        [batch_hash |-> batch_hash, nonce |-> nonce,
                         reveal_hash |-> reveal_hash, commit_hash |-> commit_hash],
                        metadata,
                        <<Ev("hash", "batch_hash"), Ev("nonce", nonce),
                          Ev("hash", "reveal_hash"), Ev("hash", "commit_hash"),
                          Ev("now", "scored_at")>>)]
                 /\ usedUuids' = usedUuids \cup {u}
  /\ UNCHANGED <<store, pinned, merkleVars>>

(* -------------- stage handlers: after the upload's answer ------------- *)
\* variant: state_hash is fed the envelope's own (empty) ipfs_cid field
post_hash_envelope_cid(s, cid) ==
  CASE s.stage = "register_farmer" ->
         LET crop_id_data == s.locals.farmer_did \o "-" \o s.payload.crop_type \o "-"
                               \o FmtDateTime(s.metadata.registered_at)
         IN [s EXCEPT !.locals = [farmer_did |-> s.locals.farmer_did,
                                  crop_id_hash |-> compute_keccak256(crop_id_data)],
                      !.trace = Append(@, Ev("hash", "crop_id_hash"))]
    [] s.stage = "warehouse_update" ->
         LET state_data == s.payload.warehouse_id \o "-" \o s.payload.batch_id \o "-"
                             \o DbgOptF64(s.payload.temperature_celsius) \o "-"
                             \o DbgOptF64(s.payload.humidity_percentage) \o "-"
                             \o s.metadata.ipfs_cid
         IN [s EXCEPT !.locals = [state_hash |-> compute_keccak256(state_data)],
                      !.trace = Append(@, Ev("hash", "state_hash"))]
    [] OTHER -> s

\* the statements between the upload and the pin call: the digests that are
\* computed only now (crop_id_hash, state_hash)
post_hash(s, cid) ==
  CASE s.stage = "register_farmer" ->
         LET crop_id_data == s.locals.farmer_did \o "-" \o s.payload.crop_type \o "-"
                               \o FmtDateTime(s.metadata.registered_at)
         IN [s EXCEPT !.locals = [farmer_did |-> s.locals.farmer_did,
                                  crop_id_hash |-> compute_keccak256(crop_id_data)],
                      !.trace = Append(@, Ev("hash", "crop_id_hash"))]
    [] s.stage = "warehouse_update" ->
         LET state_data == s.payload.warehouse_id \o "-" \o s.payload.batch_id \o "-"
                             \o DbgOptF64(s.payload.temperature_celsius) \o "-"
                             \o DbgOptF64(s.payload.humidity_percentage) \o "-" \o cid
         IN [s EXCEPT !.locals = [state_hash |-> compute_keccak256(state_data)],
                      !.trace = Append(@, Ev("hash", "state_hash"))]
    [] OTHER -> s

\* the response struct each handler builds after the pin
response(s) ==
  CASE s.stage = "register_farmer" ->
         [farmer_did |-> s.locals.farmer_did, crop_id_hash |-> s.locals.crop_id_hash,
          ipfs_cid |-> s.cid.val, registered_at |-> s.metadata.registered_at]
    [] s.stage = "fpo_purchase" ->
         [batch_hash |-> s.locals.batch_hash, ipfs_cid |-> s.cid.val,
          purchased_at |-> s.metadata.purchased_at]
    [] s.stage = "warehouse_update" ->
         [warehouse_id |-> s.payload.warehouse_id, state_hash |-> s.locals.state_hash,
          ipfs_cid |-> s.cid.val, updated_at |-> s.metadata.updated_at]
    [] s.stage = "logistics_milestone" ->
         [shipment_id |-> s.payload.shipment_id, location_hash |-> s.locals.location_hash,
          ipfs_cid |-> s.cid.val, recorded_at |-> s.metadata.recorded_at]
    [] s.stage = "process_batch" ->
         [input_batch_hash |-> s.locals.input_batch_hash,
          transform_hash |-> s.locals.transform_hash,
          output_batch_hashes |-> s.locals.output_batch_hashes,
          ipfs_cid |-> s.cid.val, processed_at |-> s.metadata.processed_at]
    [] s.stage = "create_sku" ->
         [sku_id |-> s.metadata.sku_id, parent_batch_hash |-> s.locals.parent_batch_hash,
          merkle_root |-> s.locals.merkle_root, ipfs_cid |-> s.cid.val,
          packaged_at |-> s.metadata.packaged_at]
    [] s.stage = "ai_score" ->
         [batch_hash |-> s.locals.batch_hash, commit_hash |-> s.locals.commit_hash,
          reveal_hash |-> s.locals.reveal_hash, ipfs_cid |-> s.cid.val,
          scored_at |-> s.metadata.scored_at]
    [] s.stage = "upload_to_ipfs" ->
         [cid |-> s.cid.val, size |-> s.locals.size, pinned |-> s.payload.pin]
    [] s.stage = "pin_ipfs" -> [cid |-> s.locals.cid, pinned |-> s.locals.pinned]
    [] s.stage = "ipfs::upload_to_ipfs" ->
         [cid |-> s.cid.val, gateway_url |-> "https://ipfs.io/ipfs/" \o s.cid.val]

\* Ok((StatusCode::CREATED, Json(response))), or Ok(Json(response)) in pin_ipfs and
\* in ipfs::upload_to_ipfs
Returns(s) ==
  IF s.stage \in {"pin_ipfs", "ipfs::upload_to_ipfs"}
  THEN [Ok(response(s)) EXCEPT !.status = STATUS_OK]
  ELSE Ok(response(s))

\* ipfs::upload_to_ipfs maps the client's error to (INTERNAL_SERVER_ERROR,
\* Json(ErrorResponse { error })): the body has the one field
ErrorResponse(e) ==
  [tag |-> "Err", err |-> [kind |-> "ErrorResponse", msg |-> e],
   status |-> STATUS_INTERNAL_SERVER_ERROR,
   body |-> [error |-> "Failed to upload to IPFS: " \o e]]

\* upload_json answered Ok(ipfs_response): the handler runs on to the pin call;
\* upload_to_ipfs keeps ipfs_response.size for its response and, like
\* ipfs::upload_to_ipfs, returns at once when no pin is asked for
after_upload_ok(s, ipfs_response) ==
  LET cid == ipfs_response.cid
      s0 == IF s.stage = "upload_to_ipfs"
            THEN [s EXCEPT !.locals = [size |-> ipfs_response.size]] ELSE s
      s1 == [s0 EXCEPT !.cid = Some(cid), !.trace = Append(@, Ev("upload_ok", cid))]
      s2 == post_hash(s1, s1.cid.val)
  IN IF \/ s.stage = "upload_to_ipfs" /\ ~s.payload.pin
        \/ s.stage = "ipfs::upload_to_ipfs"
     THEN [s1 EXCEPT !.pc = "done", !.trace = Append(@, Ev("receipt", cid)),
                     !.result = Returns(s1)]
     ELSE [s2 EXCEPT !.pc = "pin", !.trace = Append(@, Ev("pin", s1.cid.val))]

\* variant: the upload's error is noticed only after the statements that follow the
\* upload have run with an empty address
after_upload_err_late(s, detail) ==
  LET s2 == post_hash(s, "")
  IN [s2 EXCEPT !.pc = "done",
                !.trace = @ \o <<Ev("pin", ""), Ev("upload_err", detail),
                                 Ev("error", "InternalError")>>,
                !.result = Err(FromAnyhow(detail))]

\* variant: a failed upload is issued once more
after_upload_err_retry(s, detail) ==
  IF Count(s.trace, {"upload"}) >= 2
  THEN [s EXCEPT !.pc = "done",
                 !.trace = @ \o <<Ev("upload_err", detail), Ev("error", "InternalError")>>,
                 !.result = Err(FromAnyhow(detail))]
  ELSE [s EXCEPT !.pc = "upload", !.http_response = None,
                 !.trace = @ \o <<Ev("upload_err", detail), Ev("upload", "")>>]

\* upload_json answered Err: `?` converts the error and the handler returns it
\* (ipfs::upload_to_ipfs maps it with map_err to its own error answer)
after_upload_err(s, detail) ==
  IF s.stage = "ipfs::upload_to_ipfs"
  THEN [s EXCEPT !.pc = "done",
                 !.trace = @ \o <<Ev("upload_err", detail), Ev("error", "ErrorResponse")>>,
                 !.result = ErrorResponse(detail)]
  ELSE [s EXCEPT !.pc = "done",
                 !.trace = @ \o <<Ev("upload_err", detail), Ev("error", "InternalError")>>,
                 !.result = Err(FromAnyhow(detail))]

\* pin answered Ok(pin_response): the handler builds the response and returns it;
\* pin_ipfs builds it from the answer's cid and pinned, the others do not read it
after_pin_ok(s, pin_response) ==
  LET s1 == IF s.stage = "pin_ipfs" THEN [s EXCEPT !.locals = pin_response] ELSE s
  IN [s1 EXCEPT !.pc = "done",
                !.trace = @ \o <<Ev("pin_ok", s.cid.val), Ev("receipt", s.cid.val)>>,
                !.result = Returns(s1)]

\* variant: the pin's error is dropped and the response is returned all the same
after_pin_err_ignored(s, detail) ==
  [s EXCEPT !.pc = "done",
            !.trace = @ \o <<Ev("pin_err", detail), Ev("receipt", s.cid.val)>>,
            !.result = IF s.stage = "pin_ipfs"
                       THEN Returns([s EXCEPT !.locals = [cid |-> s.cid.val,
                                                          pinned |-> FALSE]])
                       ELSE Returns(s)]

\* pin answered Err: `?` converts the error and the handler returns it
after_pin_err(s, detail) ==
  [s EXCEPT !.pc = "done",
            !.trace = @ \o <<Ev("pin_err", detail), Ev("error", "InternalError")>>,
            !.result = Err(FromAnyhow(detail))]

\* what upload_json answers on success: the address and the byte size the node reports
Sizes == {0, 7}
UploadAnswers == {[cid |-> c, size |-> n] : c \in Cids, n \in Sizes}
\* what pin answers on success for address cid: the node names an address and a flag
PinAnswers(cid) == {[cid |-> c, pinned |-> b] : c \in {cid, "QmZ"}, b \in BOOLEAN}

\* request.send().await answered Ok(response): the node has taken the request and,
\* when its status is a success, stored the content under an address of its
\* choosing; the client goes on to await the body
upload_send(i) ==
  /\ inv[i].pc = "upload"
  /\ \E http \in HttpResponses :
       /\ inv' = [inv EXCEPT ![i] = [@ EXCEPT !.pc = "body", !.http_response = Some(http)]]
       /\ store' = IF is_success(http.status)
                   THEN store \cup {[cid |-> http.hash, data |-> inv[i].metadata]}
                   ELSE store
  /\ UNCHANGED <<pinned, usedUuids, merkleVars>>

\* response.json().await answered Ok(ipfs_response): the body names the address the
\* node stored the content under, and upload_json returns it
upload_ok(i) ==
  /\ inv[i].pc = "body"
  /\ is_success(inv[i].http_response.val.status)
  /\ \E ipfs_response \in UploadAnswers :
       /\ ipfs_response.cid = inv[i].http_response.val.hash
       /\ inv' = [inv EXCEPT ![i] = after_upload_ok(inv[i], ipfs_response)]
  /\ UNCHANGED <<store, pinned, usedUuids, merkleVars>>

\* upload_json answered Err: the request could not be sent, or the node answered with
\* an error status, or the body of its success answer could not be parsed (the node
\* holds the record all the same, under an address the handler never learns)
upload_err(i) ==
  /\ inv[i].pc \in {"upload", "body"}
  /\ LET detail == IF inv[i].pc = "upload" THEN SendFailure
                   ELSE IF is_success(inv[i].http_response.val.status) THEN ParseFailure
                   ELSE ApiFailure
     IN inv' = [inv EXCEPT ![i] = after_upload_err(inv[i], detail)]
  /\ UNCHANGED <<store, pinned, usedUuids, merkleVars>>

\* the pin call succeeded: the node holds the address it was asked to pin
pin_ok(i) ==
  /\ inv[i].pc = "pin"
  /\ \E pin_response \in PinAnswers(inv[i].cid.val) :
       inv' = [inv EXCEPT ![i] = after_pin_ok(inv[i], pin_response)]
  /\ pinned' = pinned \cup {inv[i].trace[Len(inv[i].trace)].arg}
  /\ UNCHANGED <<store, usedUuids, merkleVars>>

pin_err(i) ==
  /\ inv[i].pc = "pin"
  /\ \E detail \in PinErrDetails : inv' = [inv EXCEPT ![i] = after_pin_err(inv[i], detail)]
  /\ UNCHANGED <<store, pinned, usedUuids, merkleVars>>

(* ---------------------- generic storage routes ------------------------ *)
\* IpfsUploadRequest: caller-given JSON and the pin flag
UploadPayloads == {[data |-> [x |-> 1], pin |-> b] : b \in BOOLEAN}
\* the addresses a caller may name in the path of the pin route
PinPaths == {"QmA", "QmOld"}

\* upload_to_ipfs up to its upload call: no validation, the data is uploaded as it is
upload_to_ipfs(i) ==
  /\ inv[i].pc = "idle"
  /\ \E payload \in UploadPayloads :
       inv' = [inv EXCEPT ![i] =
                 [pc |-> "upload", stage |-> "upload_to_ipfs", payload |-> payload,
                  locals |-> NoLocals, metadata |-> payload.data, cid |-> None,
                  http_response |-> None,
                  trace |-> <<Ev("upload", "")>>, result |-> NoResult]]
  /\ UNCHANGED <<store, pinned, usedUuids, merkleVars>>

\* ipfs::UploadRequest: caller-given JSON only
IpfsUploadRequests == {[data |-> [x |-> 1]]}

\* ipfs::upload_to_ipfs, the handler of ipfs_router, up to its upload call
ipfs_upload_to_ipfs(i) ==
  /\ inv[i].pc = "idle"
  /\ \E payload \in IpfsUploadRequests :
       inv' = [inv EXCEPT ![i] =
                 [pc |-> "upload", stage |-> "ipfs::upload_to_ipfs", payload |-> payload,
                  locals |-> NoLocals, metadata |-> payload.data, cid |-> None,
                  http_response |-> None,
                  trace |-> <<Ev("upload", "")>>, result |-> NoResult]]
  /\ UNCHANGED <<store, pinned, usedUuids, merkleVars>>

\* pin_ipfs up to its pin call: the address is the one in the path
pin_ipfs(i) ==
  /\ inv[i].pc = "idle"
  /\ \E cid \in PinPaths :
       inv' = [inv EXCEPT ![i] =
                 [pc |-> "pin", stage |-> "pin_ipfs", payload |-> [cid |-> cid],
                  locals |-> NoLocals, metadata |-> None, cid |-> Some(cid),
                  http_response |-> None,
                  trace |-> <<Ev("pin", cid)>>, result |-> NoResult]]
  /\ UNCHANGED <<store, pinned, usedUuids, merkleVars>>

(* ------------------- compute_merkle_root, step by step ---------------- *)
\* the two early returns, or current_level = hashes.to_vec()
merkle_enter ==
  /\ m_pc = "call"
  /\ IF Len(m_hashes) = 0
     THEN m_root' = compute_sha256("empty") /\ m_pc' = "done" /\ m_level' = m_level
     ELSE IF Len(m_hashes) = 1
     THEN m_root' = m_hashes[1] /\ m_pc' = "done" /\ m_level' = m_level
     ELSE m_level' = m_hashes /\ m_pc' = "loop" /\ m_root' = m_root
  /\ UNCHANGED <<m_hashes, m_iters, pipeVars>>

\* one pass of while current_level.len() > 1
merkle_pass ==
  /\ m_pc = "loop"
  /\ Len(m_level) > 1
  /\ m_level' = next_level(m_level)
  /\ m_iters' = m_iters + 1
  /\ UNCHANGED <<m_hashes, m_pc, m_root, pipeVars>>

\* the loop has ended: current_level[0].clone()
merkle_return ==
  /\ m_pc = "loop"
  /\ ~(Len(m_level) > 1)
  /\ m_root' = m_level[1]
  /\ m_pc' = "done"
  /\ UNCHANGED <<m_hashes, m_level, m_iters, pipeVars>>

(* --------------------------- specifications --------------------------- *)
RECURSIVE SeqsUpTo(_, _)
SeqsUpTo(S, n) ==
  IF n = 0 THEN {<<>>}
  ELSE LET shorter == SeqsUpTo(S, n - 1)
       IN shorter \cup {Append(q, x) : q \in {r \in shorter : Len(r) = n - 1}, x \in S}

PipeInit ==
  /\ inv = [i \in Invs |-> Idle]
  /\ store = {}
  /\ pinned = {}
  /\ usedUuids = {}

MerkleIdle ==
  /\ m_level = <<>>
  /\ m_pc = "call"
  /\ m_root = ""
  /\ m_iters = 0

\* the service: every invocation slot is free, nothing is stored
Init == PipeInit /\ MerkleIdle /\ m_hashes = <<>> /\ m_pc = "call"

Next ==
  \/ \E i \in Invs : register_farmer(i)
  \/ \E i \in Invs : fpo_purchase(i)
  \/ \E i \in Invs : warehouse_update(i)
  \/ \E i \in Invs : logistics_milestone(i)
  \/ \E i \in Invs : process_batch(i)
  \/ \E i \in Invs : create_sku(i)
  \/ \E i \in Invs : ai_score(i)
  \/ \E i \in Invs : upload_to_ipfs(i)
  \/ \E i \in Invs : ipfs_upload_to_ipfs(i)
  \/ \E i \in Invs : pin_ipfs(i)
  \/ \E i \in Invs : upload_send(i)
  \/ \E i \in Invs : upload_ok(i)
  \/ \E i \in Invs : upload_err(i)
  \/ \E i \in Invs : pin_ok(i)
  \/ \E i \in Invs : pin_err(i)

Spec == Init /\ [][Next]_vars

\* compute_merkle_root applied to every leaf list of at most MaxLeaves leaves
MerkleInit == PipeInit /\ MerkleIdle /\ m_hashes \in SeqsUpTo(Leaves, MaxLeaves)

MerkleNext == merkle_enter \/ merkle_pass \/ merkle_return

MerkleSpec == MerkleInit /\ [][MerkleNext]_vars

(* ============================== claims ================================ *)
Stages == {"register_farmer", "fpo_purchase", "warehouse_update", "logistics_milestone",
           "process_batch", "create_sku", "ai_score"}

\* an invocation of one of the seven stage operations (the other invocations are
\* those of the generic storage routes)
IsStage(s) == s.stage \in Stages

HasEv(s, op) == \E k \in 1..Len(s.trace) : s.trace[k].op = op
\* position of the first entry with this op (only used when there is one)
Pos(s, op) ==
  CHOOSE k \in 1..Len(s.trace) :
    s.trace[k].op = op /\ \A n \in 1..(k - 1) : s.trace[n].op # op
ArgOf(s, op) == s.trace[Pos(s, op)].arg

\* the required (length >= 1) fields of each stage's request
RequiredFields(stage) ==
  CASE stage = "register_farmer"     -> {"farmer_name", "crop_type", "location"}
    [] stage = "fpo_purchase"        -> {"farmer_did", "fpo_name"}
    [] stage = "warehouse_update"    -> {"warehouse_id", "batch_id"}
    [] stage = "logistics_milestone" -> {"shipment_id"}
    [] stage = "process_batch"       -> {"input_batch_id", "processor_name"}
    [] stage = "create_sku"          -> {"sku_id", "parent_batch_id", "product_name"}
    [] stage = "ai_score"            -> {"batch_id"}

MissingRequired(s) == \E f \in RequiredFields(s.stage) : s.payload[f] = ""

\* C1: in each of the seven stage operations a receipt is returned only after the
\* upload has succeeded and, after that, the pin of the address that upload
\* returned has succeeded; the receipt carries that address; an invocation whose
\* upload or pin failed returns no receipt.
C1_ReceiptOnlyAfterUploadAndPin ==
  \A i \in Invs :
    LET s == inv[i] IN
    /\ (IsStage(s) /\ s.result.tag = "Ok") =>
         /\ s.pc = "done"
         /\ HasEv(s, "upload") /\ HasEv(s, "upload_ok") /\ HasEv(s, "pin")
         /\ HasEv(s, "pin_ok") /\ HasEv(s, "receipt")
         /\ Pos(s, "upload") < Pos(s, "upload_ok")
         /\ Pos(s, "upload_ok") < Pos(s, "pin")
         /\ Pos(s, "pin") < Pos(s, "pin_ok")
         /\ Pos(s, "pin_ok") < Pos(s, "receipt")
         /\ LET c == ArgOf(s, "upload_ok") IN
              /\ c \in Cids
              /\ ArgOf(s, "pin") = c
              /\ ArgOf(s, "pin_ok") = c
              /\ s.result.body.ipfs_cid = c
              /\ c \in pinned
              /\ [cid |-> c, data |-> s.metadata] \in store
    /\ (IsStage(s) /\ (HasEv(s, "upload_err") \/ HasEv(s, "pin_err"))) =>
         /\ s.result.tag = "Err"
         /\ ~HasEv(s, "receipt")

\* one invocation has returned its receipt and another has failed at the pin
C1_Witness ==
  \E i, j \in Invs :
    /\ inv[i].result.tag = "Ok" /\ inv[i].stage = "register_farmer"
    /\ HasEv(inv[j], "pin_err") /\ inv[j].pc = "done"

\* C2: when the upload fails the operation ends with an error, the caller gets no
\* receipt and no digest, pin is never requested, and no digest that takes the
\* content address as input (the warehouse state_hash) is computed.
C2_UploadFailureEndsEverything ==
  \A i \in Invs :
    LET s == inv[i] IN
    (IsStage(s) /\ HasEv(s, "upload_err")) =>
      /\ s.pc = "done"
      /\ s.result.tag = "Err"
      /\ DOMAIN s.result.body = {"error", "status"}
      /\ ~HasEv(s, "pin") /\ ~HasEv(s, "pin_ok") /\ ~HasEv(s, "receipt")
      /\ s.cid = None
      /\ \A k \in Positions(s.trace, {"hash"}) : k < Pos(s, "upload")
      /\ s.stage = "warehouse_update" =>
           /\ ~HasEv(s, "hash")
           /\ s.locals = NoLocals

\* a warehouse update whose upload has failed
C2_Witness ==
  \E i \in Invs :
    /\ inv[i].stage = "warehouse_update"
    /\ HasEv(inv[i], "upload_err")
    /\ inv[i].pc = "done"

\* C3: validation is the first step of every stage operation; a payload with a
\* missing required field is answered with a validation error and nothing else
\* has happened: no DID, no nonce, no timestamp, no digest, no upload, no pin.
C3_ValidationFirst ==
  /\ \A i \in Invs :
       LET s == inv[i] IN
       /\ IsStage(s) => s.trace[1].op = "validate"
       /\ (IsStage(s) /\ MissingRequired(s)) =>
            /\ s.pc = "done"
            /\ s.result.tag = "Err"
            /\ s.result.err.kind = "ValidationError"
            /\ s.result.status = STATUS_BAD_REQUEST
            /\ s.trace = <<Ev("validate", "err"), Ev("error", "ValidationError")>>
            /\ s.locals = NoLocals /\ s.metadata = None /\ s.cid = None
  \* every random identifier drawn belongs to an invocation that passed validation
  /\ Cardinality(usedUuids) =
       Cardinality({i \in Invs : HasEv(inv[i], "generate_did") \/ HasEv(inv[i], "nonce")})
  \* every stored record belongs to an invocation that issued an upload
  /\ Cardinality(store) <= Cardinality({i \in Invs : HasEv(inv[i], "upload")})
  /\ \A i \in Invs :
       (IsStage(inv[i]) /\ MissingRequired(inv[i])) =>
         \A rec \in store : \E j \in Invs \ {i} : rec.data = inv[j].metadata

\* a purchase without farmer_did has been rejected while another invocation ran on
C3_Witness ==
  \E i, j \in Invs :
    /\ inv[i].stage = "fpo_purchase" /\ inv[i].payload.farmer_did = ""
    /\ inv[i].pc = "done"
    /\ inv[j].stage = "register_farmer" /\ inv[j].pc = "pin"

\* C4: in warehouse_update state_hash is computed only after the upload has
\* succeeded; its input is warehouse id, batch id, temperature, humidity and the
\* content address, in that order, the address being the one this invocation's
\* upload returned; two updates with the same payload and different addresses
\* have different hash inputs.
WarehouseInput(s, cid) ==
  s.payload.warehouse_id \o "-" \o s.payload.batch_id \o "-"
    \o DbgOptF64(s.payload.temperature_celsius) \o "-"
    \o DbgOptF64(s.payload.humidity_percentage) \o "-" \o cid

HasStateHash(s) == s.stage = "warehouse_update" /\ s.locals # NoLocals

C4_StateHashAfterUpload ==
  /\ \A i \in Invs :
       LET s == inv[i] IN
       s.stage = "warehouse_update" =>
         /\ HasStateHash(s) <=> HasEv(s, "hash")
         /\ HasStateHash(s) <=> HasEv(s, "upload_ok")
         /\ HasStateHash(s) =>
              /\ Pos(s, "upload_ok") < Pos(s, "hash")
              /\ Pos(s, "hash") < Pos(s, "pin")
              /\ s.cid = Some(ArgOf(s, "upload_ok"))
              /\ s.locals.state_hash =
                   compute_keccak256(WarehouseInput(s, ArgOf(s, "upload_ok")))
         /\ s.result.tag = "Ok" => s.result.body.state_hash = s.locals.state_hash
  /\ \A i, j \in Invs :
       (/\ HasStateHash(inv[i]) /\ HasStateHash(inv[j])
        /\ inv[i].payload = inv[j].payload
        /\ inv[i].cid # inv[j].cid) =>
         /\ WarehouseInput(inv[i], inv[i].cid.val) # WarehouseInput(inv[j], inv[j].cid.val)
         /\ inv[i].locals.state_hash # inv[j].locals.state_hash

\* two warehouse updates with the same payload were given different addresses
C4_Witness ==
  \E i, j \in Invs :
    /\ HasStateHash(inv[i]) /\ HasStateHash(inv[j])
    /\ inv[i].payload = inv[j].payload
    /\ inv[i].cid # inv[j].cid
    /\ inv[i].result.tag = "Ok"

\* C5: an upload failure and a pin failure reach the caller as two different
\* error classes (storage-unavailable and pin-failed), so the error alone says
\* which of the two steps failed.
C5_DistinctErrorClasses ==
  \A i, j \in Invs :
    (/\ IsStage(inv[i]) /\ HasEv(inv[i], "upload_err")
     /\ IsStage(inv[j]) /\ HasEv(inv[j], "pin_err")) =>
      /\ inv[i].result.err.kind # inv[j].result.err.kind
      /\ inv[i].result.status # inv[j].result.status

\* C6: the envelope's ipfs_cid is empty until the upload succeeds and from then
\* on holds the address the upload returned; no envelope carries a digest that
\* depends on the address while its ipfs_cid is still empty.
C6_EnvelopeAddressSetOnUpload ==
  \A i \in Invs :
    LET s == inv[i] IN
    (IsStage(s) /\ s.metadata # None) =>
      /\ s.cid = None => s.metadata.ipfs_cid = ""
      /\ s.cid # None => s.metadata.ipfs_cid = s.cid.val
      /\ (s.stage = "warehouse_update" /\ s.metadata.ipfs_cid = "") =>
           s.metadata.state_hash = ""

\* the two digest families, stated on their own
GeneralHash(x) == "0xS(" \o x \o ")"
SolidityHash(x) == "0xK(" \o x \o ")"

\* the reference merkle root: level k+1 pairs the elements 2j-1 and 2j of level k,
\* the last element with itself when it has no partner
RefLevel(l) ==
  [j \in 1..((Len(l) + 1) \div 2) |->
     GeneralHash(l[2 * j - 1] \o (IF 2 * j <= Len(l) THEN l[2 * j] ELSE l[2 * j - 1]))]

RECURSIVE RefReduce(_)
RefReduce(l) == IF Len(l) = 1 THEN l[1] ELSE RefReduce(RefLevel(l))

RefRoot(l) ==
  IF Len(l) = 0 THEN GeneralHash("empty")
  ELSE IF Len(l) = 1 THEN l[1]
  ELSE RefReduce(l)

\* C7: compute_merkle_root equals the reference definition on every leaf list:
\* the sentinel generalHash("empty") for the empty list, the leaf itself for one
\* leaf, otherwise levels of generalHash(left ++ right) with an odd last element
\* paired with itself; root([a,b]) = generalHash(a+b), root([a,b,c]) =
\* generalHash(generalHash(a+b) + generalHash(c+c)); the loop ends after fewer
\* passes than there are leaves.
C7_MerkleRootMatchesReference ==
  /\ compute_merkle_root(m_hashes) = RefRoot(m_hashes)
  /\ m_pc = "done" => m_root = RefRoot(m_hashes)
  /\ Len(m_hashes) = 2 =>
       compute_merkle_root(m_hashes) = GeneralHash(m_hashes[1] \o m_hashes[2])
  /\ Len(m_hashes) = 3 =>
       compute_merkle_root(m_hashes) =
         GeneralHash(GeneralHash(m_hashes[1] \o m_hashes[2])
                       \o GeneralHash(m_hashes[3] \o m_hashes[3]))
  /\ m_pc = "loop" =>
       /\ Len(m_level) >= 1
       /\ m_iters + Len(m_level) <= Len(m_hashes)
  /\ (m_pc = "done" /\ Len(m_hashes) >= 2) =>
       /\ Len(m_level) = 1
       /\ m_iters >= 1 /\ m_iters < Len(m_hashes)
  /\ (m_pc = "done" /\ Len(m_hashes) < 2) => m_iters = 0

\* the root of a list of three leaves has been returned after two passes
C7_Witness ==
  /\ m_pc = "done"
  /\ Len(m_hashes) = 3
  /\ m_iters = 2
  /\ m_root = GeneralHash(GeneralHash("a" \o "aa") \o GeneralHash("b" \o "b"))

Swap(l, i, j) ==
  [k \in 1..Len(l) |-> IF k = i THEN l[j] ELSE IF k = j THEN l[i] ELSE l[k]]

\* C8 as stated: in a list of two or more leaves, swapping two leaves that are
\* not identical changes the root.
C8_AnySwapChangesRoot ==
  (m_pc = "done" /\ Len(m_hashes) >= 2) =>
    \A i, j \in 1..Len(m_hashes) :
      m_hashes[i] # m_hashes[j] =>
        compute_merkle_root(Swap(m_hashes, i, j)) # m_root

\* C8 as amended: in a list of two or more leaves, swapping two leaves of equal
\* length that are not identical changes the root.
C8_SwapOfEqualLengthLeavesChangesRoot ==
  (m_pc = "done" /\ Len(m_hashes) >= 2) =>
    \A i, j \in 1..Len(m_hashes) :
      (m_hashes[i] # m_hashes[j] /\ Len(m_hashes[i]) = Len(m_hashes[j])) =>
        compute_merkle_root(Swap(m_hashes, i, j)) # m_root

\* the root of <<a, a, a, b>> has been returned: its second and fourth leaves
\* differ and have the same length
C8_Witness ==
  /\ m_pc = "done"
  /\ m_hashes = <<"a", "a", "a", "b">>
  /\ compute_merkle_root(Swap(m_hashes, 2, 4)) # m_root

IsAiEnvelope(data) == "commit_hash" \in DOMAIN data

\* C9 as stated: in every persisted AI-score envelope reveal_hash and commit_hash
\* are general-purpose digests: reveal_hash = generalHash(canonical(payload)),
\* commit_hash = generalHash(reveal_hash ++ nonce).
C9_CommitRevealGeneralHash ==
  \A rec \in store :
    IsAiEnvelope(rec.data) =>
      /\ rec.data.reveal_hash = GeneralHash(AiScoreJson(rec.data.score_data))
      /\ rec.data.commit_hash = GeneralHash(rec.data.reveal_hash \o rec.data.nonce)

\* C9 as amended: in every persisted AI-score envelope reveal_hash and
\* commit_hash are Solidity-compatible (Keccak-256) digests: reveal_hash =
\* solidityHash(canonical(payload)), commit_hash = solidityHash(reveal_hash ++
\* nonce), the nonce being the one stored in the same envelope.
C9_CommitRevealSolidityHash ==
  \A rec \in store :
    IsAiEnvelope(rec.data) =>
      /\ rec.data.reveal_hash = SolidityHash(AiScoreJson(rec.data.score_data))
      /\ rec.data.commit_hash = SolidityHash(rec.data.reveal_hash \o rec.data.nonce)
      /\ rec.data.nonce # ""
      /\ rec.data.commit_hash # rec.data.reveal_hash

\* an AI-score envelope is held by the storage service
C9_Witness ==
  \E rec \in store : IsAiEnvelope(rec.data) /\ rec.data.score_data = AiBase

\* verify(pair, payload): the reveal hash recomputed from the payload and the
\* commit hash recomputed from it and the nonce both equal the pair's; the digest
\* is the one the commitment was made with
Verify(pair, payload) ==
  LET reveal_hash == compute_keccak256(AiScoreJson(payload))
      commit_hash == compute_keccak256(reveal_hash \o pair.nonce)
  IN reveal_hash = pair.reveal_hash /\ commit_hash = pair.commit_hash

\* the payloads that differ from p in exactly one field
AiVariants(p) ==
  { [p EXCEPT !.batch_id = @ \o "2"],
    [p EXCEPT !.quality_score = @ + 1],
    [p EXCEPT !.sustainability_score = @ + 1],
    [p EXCEPT !.traceability_score = @ + 1],
    [p EXCEPT !.model_name = @ \o "2"],
    [p EXCEPT !.model_version = @ \o "2"],
    [p EXCEPT !.features = "{\"k\":1}"],
    [p EXCEPT !.predictions = "[1]"],
    [p EXCEPT !.confidence = @ + 1],
    [p EXCEPT !.model_artifacts_url = Some("u")],
    [p EXCEPT !.training_data_hash = Some("h")] }

AiReturned(s) == s.stage = "ai_score" /\ s.result.tag = "Ok"

\* C10 as stated: after a successful ai_score the caller verifies the commitment
\* from what was returned: the returned nonce and the returned reveal_hash give
\* the returned commit_hash, and verify fails once a payload field is changed.
C10_VerifiableFromReceipt ==
  \A i \in Invs :
    AiReturned(inv[i]) =>
      /\ "nonce" \in DOMAIN inv[i].result.body
      /\ Verify([nonce |-> inv[i].result.body.nonce,
                 reveal_hash |-> inv[i].result.body.reveal_hash,
                 commit_hash |-> inv[i].result.body.commit_hash], inv[i].payload)

\* C10 as amended: the receipt carries no nonce; with the nonce of the envelope
\* persisted under the returned content address, the returned reveal_hash and
\* commit_hash verify for the original payload, and verify fails once any
\* payload field is changed.
C10_VerifiableWithPersistedNonce ==
  \A i \in Invs :
    AiReturned(inv[i]) =>
      LET body == inv[i].result.body
          pair == [nonce |-> inv[i].metadata.nonce, reveal_hash |-> body.reveal_hash,
                   commit_hash |-> body.commit_hash]
      IN /\ DOMAIN body = {"batch_hash", "commit_hash", "reveal_hash", "ipfs_cid", "scored_at"}
         /\ [cid |-> body.ipfs_cid, data |-> inv[i].metadata] \in store
         /\ Verify(pair, inv[i].payload)
         /\ \A q \in AiVariants(inv[i].payload) : ~Verify(pair, q)

\* an ai_score call has returned its receipt
C10_Witness ==
  \E i \in Invs : AiReturned(inv[i]) /\ inv[i].result.body.ipfs_cid = "QmB"

SkuBegun(s) == s.stage = "create_sku" /\ s.locals # NoLocals

\* C11: create_sku returns root(merkle_proof) whenever a proof list is supplied
\* (for three leaves generalHash(generalHash(l1+l2) + generalHash(l3+l3))) and the
\* sku_id itself, unchanged, whenever merkle_proof is omitted.
C11_SkuMerkleRoot ==
  \A i \in Invs :
    LET s == inv[i] IN
    SkuBegun(s) =>
      LET proof == s.payload.merkle_proof
          expected == IF proof.tag = "Some" THEN RefRoot(proof.val) ELSE s.payload.sku_id
      IN /\ s.locals.merkle_root = expected
         /\ s.result.tag = "Ok" => s.result.body.merkle_root = expected
         /\ (proof.tag = "Some" /\ Len(proof.val) = 3) =>
              expected = GeneralHash(GeneralHash(proof.val[1] \o proof.val[2])
                                       \o GeneralHash(proof.val[3] \o proof.val[3]))
         /\ proof.tag = "None" => s.locals.merkle_root = "SKU1"

\* a receipt for a three-leaf proof and a receipt for a request without proof
C11_Witness ==
  \E i, j \in Invs :
    /\ SkuBegun(inv[i]) /\ inv[i].result.tag = "Ok"
    /\ inv[i].payload.merkle_proof = Some(<<"leaf1", "leaf2", "leaf3">>)
    /\ SkuBegun(inv[j]) /\ inv[j].result.tag = "Ok"
    /\ inv[j].payload.merkle_proof = None

\* the stages whose digests are computed from the request alone
PayloadOnlyStages == {"fpo_purchase", "logistics_milestone", "process_batch", "create_sku",
                      "ai_score"}

\* the request fields each of these stages is said to hash
ListedFields(stage, p) ==
  CASE stage = "fpo_purchase" -> <<p.farmer_did, p.batch_id, p.quantity_kg, p.fpo_name>>
    [] stage = "logistics_milestone" ->
         <<p.shipment_id, p.current_location, p.gps_coordinates.latitude,
           p.gps_coordinates.longitude>>
    [] stage = "process_batch" ->
         <<p.input_batch_id, p.processor_name, p.input_quantity_kg, p.output_batch_ids,
           p.output_quantity_kg, p.processing_type, p.yield_percentage, p.waste_percentage>>
    [] stage = "create_sku" ->
         <<p.parent_batch_id, p.product_name,
           IF p.merkle_proof.tag = "Some" THEN p.merkle_proof.val ELSE <<p.sku_id>>>>
    [] stage = "ai_score" -> <<p.batch_id, p.model_name>>

\* the digests of a receipt that belong to those fields
ReceiptDigests(stage, body) ==
  CASE stage = "fpo_purchase" -> <<body.batch_hash>>
    [] stage = "logistics_milestone" -> <<body.location_hash>>
    [] stage = "process_batch" ->
         <<body.input_batch_hash, body.output_batch_hashes, body.transform_hash>>
    [] stage = "create_sku" -> <<body.parent_batch_hash, body.merkle_root>>
    [] stage = "ai_score" -> <<body.batch_hash>>

Returned(s, stage) == s.stage = stage /\ s.result.tag = "Ok"

\* C12: for fpo_purchase, logistics_milestone, process_batch, create_sku and the
\* ai_score batch_hash, two invocations that agree on the listed request fields return
\* the same digests, whatever their other fields, timestamps, addresses and order.
C12_DigestsDependOnListedFieldsOnly ==
  \A i, j \in Invs : \A stage \in PayloadOnlyStages :
    ( /\ Returned(inv[i], stage) /\ Returned(inv[j], stage)
      /\ ListedFields(stage, inv[i].payload) = ListedFields(stage, inv[j].payload) )
    => ReceiptDigests(stage, inv[i].result.body) = ReceiptDigests(stage, inv[j].result.body)

\* two purchase receipts: same listed fields, another grade, timestamp and address
C12_Witness ==
  \E i, j \in Invs :
    /\ Returned(inv[i], "fpo_purchase") /\ Returned(inv[j], "fpo_purchase")
    /\ ListedFields("fpo_purchase", inv[i].payload) = ListedFields("fpo_purchase", inv[j].payload)
    /\ inv[i].payload.quality_grade # inv[j].payload.quality_grade
    /\ inv[i].result.body.purchased_at # inv[j].result.body.purchased_at
    /\ inv[i].result.body.ipfs_cid # inv[j].result.body.ipfs_cid

\* the record an invocation holds is built from its own request
StageEnvelope(s) ==
  /\ s.stage \in Stages
  /\ s.cid = None
  /\ s.pc \in {"upload", "done"}
  /\ s.pc = "upload" =>
       \/ s.stage = "register_farmer"     /\ s.metadata.registration_data = s.payload
       \/ s.stage = "fpo_purchase"        /\ s.metadata.purchase_data = s.payload
       \/ s.stage = "warehouse_update"    /\ s.metadata.warehouse_data = s.payload
       \/ s.stage = "logistics_milestone" /\ s.metadata.milestone_data = s.payload
       \/ s.stage = "process_batch"       /\ s.metadata.process_data = s.payload
       \/ s.stage = "create_sku"          /\ s.metadata.sku_data = s.payload
       \/ s.stage = "ai_score"            /\ s.metadata.score_data = s.payload

OwnEnvelope(s) ==
  \/ StageEnvelope(s)
  \/ /\ s.stage \in {"upload_to_ipfs", "ipfs::upload_to_ipfs"}
     /\ s.pc = "upload" /\ s.metadata = s.payload.data
  \/ s.stage = "pin_ipfs" /\ s.pc = "pin" /\ s.cid = Some(s.payload.cid)

\* a suspended invocation s goes on as t: its request and its envelope stay as they
\* are, its trace grows at the end, the digests it has bound keep their values, and it
\* moves from one suspension point to the next or returns
Continues(s, t) ==
  /\ t.stage = s.stage /\ t.payload = s.payload /\ t.metadata = s.metadata
  /\ Len(t.trace) >= Len(s.trace)
  /\ SubSeq(t.trace, 1, Len(s.trace)) = s.trace
  /\ (IsStage(s) /\ s.locals # NoLocals) =>
       \A f \in DOMAIN s.locals : f \in DOMAIN t.locals /\ t.locals[f] = s.locals[f]
  /\ <<s.pc, t.pc>> \in {<<"upload", "body">>, <<"upload", "done">>, <<"body", "pin">>,
                         <<"body", "done">>, <<"pin", "done">>}

\* the clock reading and the identifier an invocation was given
ClockOf(s) ==
  CASE s.metadata = None               -> 0
    [] s.stage = "register_farmer"     -> s.metadata.registered_at
    [] s.stage = "fpo_purchase"        -> s.metadata.purchased_at
    [] s.stage = "warehouse_update"    -> s.metadata.updated_at
    [] s.stage = "logistics_milestone" -> s.metadata.recorded_at
    [] s.stage = "process_batch"       -> s.metadata.processed_at
    [] s.stage = "create_sku"          -> s.metadata.packaged_at
    [] s.stage = "ai_score"            -> s.metadata.scored_at
    [] OTHER                           -> 0

DrawnOf(s) ==
  CASE s.metadata = None           -> ""
    [] s.stage = "register_farmer" -> s.metadata.farmer_did
    [] s.stage = "ai_score"        -> s.metadata.nonce
    [] OTHER                       -> ""

\* the answers the storage service has given an invocation so far: the node's answer
\* to its upload request, the answers in its trace and, for the routes that pass the
\* answer's fields through, those fields
AnswerOps == {"upload_ok", "upload_err", "pin_ok", "pin_err"}
IsAnswer(e) == e.op \in AnswerOps
AnswersOf(s) ==
  <<s.http_response, SelectSeq(s.trace, IsAnswer), IF IsStage(s) THEN NoLocals ELSE s.locals>>

\* the same request, clock reading, identifier and storage answers
SameInputs(s, t) ==
  /\ s.stage = t.stage /\ s.payload = t.payload
  /\ ClockOf(s) = ClockOf(t) /\ DrawnOf(s) = DrawnOf(t)
  /\ AnswersOf(s) = AnswersOf(t)

\* two invocations with the same inputs hold the same record, digests and outcome
\* included, whatever the other invocations did before and between their steps
SameInputsSameRecord ==
  \A i, j \in Invs :
    (inv[i].pc # "idle" /\ SameInputs(inv[i], inv[j])) => inv[i] = inv[j]

InternalFailure(s) ==
  IsStage(s) /\ s.result.tag = "Err" /\ s.result.err.kind = "InternalError"

\* C14: an internal error reaches the caller with a generic message: two internal
\* failures return the same message, whatever detail the failing call reported.
C14_GenericInternalMessage ==
  \A i, j \in Invs :
    (InternalFailure(inv[i]) /\ InternalFailure(inv[j]))
      => inv[i].result.body.error = inv[j].result.body.error

\* the digests each stage computes from its request, its identifier and its timestamp
PrimaryDigests(stage) ==
  CASE stage = "register_farmer"     -> {"crop_id_hash"}
    [] stage = "fpo_purchase"        -> {"batch_hash"}
    [] stage = "logistics_milestone" -> {"location_hash"}
    [] stage = "process_batch"       -> {"input_batch_hash", "output_batch_hashes",
                                         "transform_hash"}
    [] stage = "create_sku"          -> {"parent_batch_hash", "merkle_root"}
    [] stage = "ai_score"            -> {"batch_hash", "reveal_hash", "commit_hash"}
    [] OTHER                         -> {}

\* the digests computed before position k of the trace
HashedBefore(s, k) == {s.trace[n].arg : n \in {m \in 1..(k - 1) : s.trace[m].op = "hash"}}

\* every primary digest of the stage is computed before the upload is issued
DigestsBeforeUpload(s) ==
  HasEv(s, "upload") => PrimaryDigests(s.stage) \subseteq HashedBefore(s, Pos(s, "upload"))

\* C15: for register_farmer, fpo_purchase, logistics_milestone,
\* process_batch, create_sku and ai_score the primary digests are computed before the
\* upload is issued.
C15_PrimaryDigestsBeforeUpload ==
  \A i \in Invs :
    inv[i].stage \in Stages \ {"warehouse_update"} => DigestsBeforeUpload(inv[i])

\* two purchase requests whose farmer_did and batch_id differ but join to the same text
SameJoin(p, q) ==
  /\ <<p.farmer_did, p.batch_id>> # <<q.farmer_did, q.batch_id>>
  /\ p.farmer_did \o "-" \o p.batch_id = q.farmer_did \o "-" \o q.batch_id
  /\ p.quantity_kg = q.quantity_kg /\ p.fpo_name = q.fpo_name

\* C16: the '-' join is ambiguous: purchases whose (farmer_did, batch_id) are
\* ("a-b", "c") and ("a", "b-c"), other hashed fields equal, get the same batch_hash.
C16_DelimiterCollision ==
  \A i, j \in Invs :
    ( /\ Returned(inv[i], "fpo_purchase") /\ Returned(inv[j], "fpo_purchase")
      /\ SameJoin(inv[i].payload, inv[j].payload) )
    => inv[i].result.body.batch_hash = inv[j].result.body.batch_hash

\* receipts for ("a-b", "c") and for ("a", "b-c")
C16_Witness ==
  \E i, j \in Invs :
    /\ Returned(inv[i], "fpo_purchase") /\ Returned(inv[j], "fpo_purchase")
    /\ SameJoin(inv[i].payload, inv[j].payload)
    /\ inv[i].payload.farmer_did = "a-b" /\ inv[i].payload.batch_id = "c"
    /\ inv[j].payload.farmer_did = "a" /\ inv[j].payload.batch_id = "b-c"

\* C17: when the pin fails after a successful upload, the outcome the caller gets
\* identifies the address of the uploaded content, so that the pin can be retried alone.
C17_PinFailureNamesAddress ==
  \A i \in Invs :
    LET s == inv[i] IN
    (IsStage(s) /\ s.pc = "done" /\ HasEv(s, "pin_err")) =>
      \/ "ipfs_cid" \in DOMAIN s.result.body /\ s.result.body.ipfs_cid = s.cid.val
      \/ "cid" \in DOMAIN s.result.body /\ s.result.body.cid = s.cid.val
      \/ s.result.body.error = s.cid.val

StorageCalls == {"upload", "pin"}

\* no storage call is issued after position k of the trace
NoCallAfter(s, k) == \A n \in (k + 1)..Len(s.trace) : s.trace[n].op \notin StorageCalls

\* C18: one invocation issues at most one upload and at most one pin and retries
\* neither; the pin is issued only after the upload succeeded and with the address the
\* upload returned; after a failed upload or a failed pin no storage call follows.
C18_OneUploadOnePinNoRetry ==
  \A i \in Invs :
    LET s == inv[i] IN
    IsStage(s) =>
    /\ Count(s.trace, {"upload"}) <= 1
    /\ Count(s.trace, {"pin"}) <= 1
    /\ HasEv(s, "pin") => /\ HasEv(s, "upload_ok")
                          /\ Pos(s, "upload_ok") < Pos(s, "pin")
                          /\ ArgOf(s, "pin") = ArgOf(s, "upload_ok")
    /\ HasEv(s, "upload_err") => NoCallAfter(s, Pos(s, "upload_err"))
    /\ HasEv(s, "pin_err") => NoCallAfter(s, Pos(s, "pin_err"))
    /\ s.pc = "done" => NoCallAfter(s, Len(s.trace) - 1)

\* one invocation ended by a failed upload, another by a failed pin
C18_Witness ==
  \E i, j \in Invs :
    /\ inv[i].pc = "done" /\ HasEv(inv[i], "upload_err")
    /\ inv[j].pc = "done" /\ HasEv(inv[j], "pin_err") /\ HasEv(inv[j], "upload_ok")

\* the digest fields a stage's receipt and its persisted record have in common
DigestFields(stage) ==
  CASE stage = "warehouse_update" -> {"state_hash"}
    [] OTHER                      -> PrimaryDigests(stage)

\* the record the storage service holds for a receipt
PersistedFor(s) == {rec \in store : rec.cid = s.result.body.ipfs_cid /\ rec.data = s.metadata}

\* C19: the record persisted for a receipt carries the same digests as the receipt, for
\* every stage, register_farmer (crop_id_hash) and warehouse_update (state_hash)
\* included.
C19_PersistedDigestsMatchReceipt ==
  \A i \in Invs :
    LET s == inv[i] IN
    (IsStage(s) /\ s.result.tag = "Ok") =>
      /\ PersistedFor(s) # {}
      /\ \A rec \in PersistedFor(s) : \A f \in DigestFields(s.stage) :
           rec.data[f] = s.result.body[f]

\* C20: a list of three leaves has the same root as the list of four leaves that
\* repeats the third: root([a, b, c]) = root([a, b, c, c]).
C20_OddLastLeafDuplication ==
  Len(m_hashes) = 3 =>
    LET four == Append(m_hashes, m_hashes[3]) IN
    /\ compute_merkle_root(m_hashes) = compute_merkle_root(four)
    /\ m_pc = "done" => m_root = compute_merkle_root(four)

\* the root of <<a, aa, b>> has been returned and is the root of <<a, aa, b, b>>
C20_Witness ==
  /\ m_pc = "done"
  /\ m_hashes = <<"a", "aa", "b">>
  /\ m_root = compute_merkle_root(<<"a", "aa", "b", "b">>)
  /\ m_root # compute_merkle_root(<<"a", "aa">>)

\* C21: every register_farmer receipt carries a freshly generated farmer_did that no
\* other receipt carries, and its crop_id_hash is the digest of that farmer_did, the
\* crop type and the invocation's own timestamp; so two registrations, even with the
\* same request, return different farmer_did values and different crop_id_hash inputs.
C21_FreshDidPerRegistration ==
  \A i \in Invs :
    Returned(inv[i], "register_farmer") =>
      LET body == inv[i].result.body IN
      /\ \E u \in Uuids : body.farmer_did = "did:farmer:" \o UuidStr(u)
      /\ body.crop_id_hash =
           SolidityHash(body.farmer_did \o "-" \o inv[i].payload.crop_type \o "-"
                          \o FmtDateTime(body.registered_at))
      /\ \A j \in Invs \ {i} :
           Returned(inv[j], "register_farmer") =>
             /\ body.farmer_did # inv[j].result.body.farmer_did
             /\ body.crop_id_hash # inv[j].result.body.crop_id_hash

\* two registration receipts for the same request at the same timestamp
C21_Witness ==
  /\ Returned(inv["i1"], "register_farmer") /\ Returned(inv["i2"], "register_farmer")
  /\ inv["i1"].payload = inv["i2"].payload
  /\ inv["i1"].result.body.registered_at = inv["i2"].result.body.registered_at
  /\ inv["i1"].result.body.farmer_did # inv["i2"].result.body.farmer_did

====
